---- MODULE Spec2Model ----
(***************************************************************************)
(* Model of flame-hotkeys_convert.py: conversion of pre-2025 flame hotkey  *)
(* files to the 2025 shortcuts json format.                                *)
(*                                                                         *)
(* Text is modelled at the character level: a Python str is a sequence of  *)
(* one-character strings, so that the regular expressions of the source    *)
(* are modelled by what they match and the hand-assembled JSON text can be *)
(* parsed back.                                                            *)
(***************************************************************************)
EXTENDS Integers, Sequences, FiniteSets, TLC

(***************************************************************************)
(* Characters and character classes of Python's re module.                 *)
(***************************************************************************)

\* \s of re (the characters TLA+ strings can write: vertical tab and the
\* separators \x1c-\x1f are left out).
Whitespace == {" ", "\t", "\n", "\r", "\f"}

Upper == {"A", "B", "C", "D", "E", "F", "G", "H", "I", "J", "K", "L", "M",
          "N", "O", "P", "Q", "R", "S", "T", "U", "V", "W", "X", "Y", "Z"}

Lower == {"a", "b", "c", "d", "e", "f", "g", "h", "i", "j", "k", "l", "m",
          "n", "o", "p", "q", "r", "s", "t", "u", "v", "w", "x", "y", "z"}

Digit == {"0", "1", "2", "3", "4", "5", "6", "7", "8", "9"}

\* \w of re (ASCII part).
WordChar == Upper \cup Lower \cup Digit \cup {"_"}

Min(S) == CHOOSE x \in S : \A y \in S : x <= y

Max(S) == CHOOSE x \in S : \A y \in S : x >= y

\* The literal lit occurs in s at position i.
StartsAt(s, i, lit) ==
    /\ i >= 1
    /\ i + Len(lit) - 1 <= Len(s)
    /\ \A k \in 1..Len(lit) : s[i + k - 1] = lit[k]

\* The position after the maximal run of characters of class cls from i on.
SkipClass(s, i, cls) ==
    LET stops == {j \in i..Len(s) : s[j] \notin cls}
    IN  IF stops = {} THEN Len(s) + 1 ELSE Min(stops)

\* s[a..b-1], empty when b <= a.
Slice(s, a, b) == IF b <= a THEN <<>> ELSE SubSeq(s, a, b - 1)

RECURSIVE Cat(_)
\* ''.join(ss)
Cat(ss) == IF ss = <<>> THEN <<>> ELSE Head(ss) \o Cat(Tail(ss))

RECURSIVE Join(_, _)
\* sep.join(ss)
Join(sep, ss) ==
    IF ss = <<>> THEN <<>>
    ELSE IF Len(ss) = 1 THEN ss[1]
    ELSE ss[1] \o sep \o Join(sep, Tail(ss))

RECURSIVE Split(_, _)
\* s.split(c) for a one-character separator c
Split(s, c) ==
    LET hits == {i \in 1..Len(s) : s[i] = c}
    IN  IF hits = {} THEN <<s>>
        ELSE LET i == Min(hits)
             IN  <<Slice(s, 1, i)>> \o Split(Slice(s, i + 1, Len(s) + 1), c)

RECURSIVE Replace(_, _, _)
\* s.replace(c, to) for a one-character c
Replace(s, c, to) ==
    IF s = <<>> THEN <<>>
    ELSE (IF Head(s) = c THEN to ELSE <<Head(s)>>) \o Replace(Tail(s), c, to)

(***************************************************************************)
(* String literals of the source.                                          *)
(***************************************************************************)

HotKeyOne == <<"H", "o", "t", "K", "e", "y", "O", "n", "e">>

StartHotKeyOne == <<"S", "t", "a", "r", "t">> \o HotKeyOne

EndHotKeyOne == <<"E", "n", "d">> \o HotKeyOne

KEY_NONE == <<"K", "E", "Y", "_", "N", "O", "N", "E">>

KEY_CTL == <<"K", "E", "Y", "_", "C", "T", "L">>

KEY_ALT == <<"K", "E", "Y", "_", "A", "L", "T">>

KEY_CTL_L == KEY_CTL \o <<"_", "L">>

KEY_ALT_L == KEY_ALT \o <<"_", "L">>

Description == <<"D", "e", "s", "c", "r", "i", "p", "t", "i", "o", "n">>

Category == <<"C", "a", "t", "e", "g", "o", "r", "y">>

FuncIndex == <<"F", "u", "n", "c", "I", "n", "d", "e", "x">>

FunctionName == <<"F", "u", "n", "c", "t", "i", "o", "n", "N", "a", "m", "e">>

ItemIndex == <<"I", "t", "e", "m", "I", "n", "d", "e", "x">>

ButtonName == <<"B", "u", "t", "t", "o", "n", "N", "a", "m", "e">>

ItemFuncParam == <<"I", "t", "e", "m", "F", "u", "n", "c", "P", "a", "r", "a", "m">>

ValueType == <<"V", "a", "l", "u", "e", "T", "y", "p", "e">>

ValueIncrement == <<"V", "a", "l", "u", "e", "I", "n", "c", "r", "e", "m", "e", "n", "t">>

Key1 == <<"K", "e", "y", "1">>

Key2 == <<"K", "e", "y", "2">>

Key3 == <<"K", "e", "y", "3">>

Key4 == <<"K", "e", "y", "4">>

(***************************************************************************)
(* parse_block and its three variants.                                     *)
(***************************************************************************)

\* re.match(r'\s*(\w+)\s+(.*)', line): <<key, value>>, or <<>> for no match.
\* Greedy \s* and \w+ can give nothing back (what follows each must be of
\* another class), and (.*) takes the rest of the line, which holds no \n.
match_line(line) ==
    LET a == SkipClass(line, 1, Whitespace)
        b == SkipClass(line, a, WordChar)
        c == SkipClass(line, b, Whitespace)
    IN  IF b > a /\ c > b
        THEN <<Slice(line, a, b), Slice(line, c, Len(line) + 1)>>
        ELSE <<>>

RECURSIVE block_dict_first_wins(_, _, _)
\* A faulty first loop, one that keeps the value a field already has: what
\* C9 tells from the loop of the source.
block_dict_first_wins(lines, key_mapping, d) ==
    IF lines = <<>> THEN d
    ELSE LET m == match_line(Head(lines))
             d2 == IF /\ m # <<>>
                      /\ m[1] \in DOMAIN key_mapping
                      /\ key_mapping[m[1]] \notin DOMAIN d
                   THEN [k \in DOMAIN d \cup {key_mapping[m[1]]} |->
                            IF k = key_mapping[m[1]] THEN m[2] ELSE d[k]]
                   ELSE d
         IN  block_dict_first_wins(Tail(lines), key_mapping, d2)

RECURSIVE block_dict(_, _, _)
\* The first loop of parse_block: the dictionary after the lines have been
\* processed in order, starting from dictionary d.
block_dict(lines, key_mapping, d) ==
    IF lines = <<>> THEN d
    ELSE LET m == match_line(Head(lines))
             d2 == IF m # <<>> /\ m[1] \in DOMAIN key_mapping
                   THEN [k \in DOMAIN d \cup {key_mapping[m[1]]} |->
                            IF k = key_mapping[m[1]] THEN m[2] ELSE d[k]]
                   ELSE d
         IN  block_dict(Tail(lines), key_mapping, d2)

RECURSIVE ordered_block_dict(_, _)
\* The second loop of parse_block: the items of d in the order of ordered_keys.
ordered_block_dict(ordered_keys, d) ==
    IF ordered_keys = <<>> THEN <<>>
    ELSE (IF Head(ordered_keys) \in DOMAIN d
          THEN <<<<Head(ordered_keys), d[Head(ordered_keys)]>>>>
          ELSE <<>>) \o ordered_block_dict(Tail(ordered_keys), d)

RECURSIVE block_items_as_read(_, _, _)
\* The items of a dictionary filled from the lines and never reordered: a
\* field is where its first line put it, with the value of its last line.
block_items_as_read(lines, key_mapping, items) ==
    IF lines = <<>> THEN items
    ELSE LET m == match_line(Head(lines))
             its == IF m # <<>> /\ m[1] \in DOMAIN key_mapping
                    THEN IF \E q \in DOMAIN items : items[q][1] = key_mapping[m[1]]
                         THEN [q \in DOMAIN items |->
                                  IF items[q][1] = key_mapping[m[1]]
                                  THEN <<items[q][1], m[2]>> ELSE items[q]]
                         ELSE Append(items, <<key_mapping[m[1]], m[2]>>)
                    ELSE items
         IN  block_items_as_read(Tail(lines), key_mapping, its)

\* A faulty parse_block, one without the second loop: what C4 tells from
\* the parse_block of the source.
parse_block_as_read(block, key_mapping, ordered_keys) ==
    block_items_as_read(Split(block, "\n"), key_mapping, <<>>)

\* An OrderedDict is the sequence of its <<key, value>> items.
parse_block(block, key_mapping, ordered_keys) ==
    ordered_block_dict(ordered_keys,
                       block_dict(Split(block, "\n"), key_mapping, <<>>))

func_key_mapping ==
    (Description :> Description) @@ (Category :> Category) @@
    (FuncIndex :> FunctionName) @@
    (Key1 :> Key1) @@ (Key2 :> Key2) @@ (Key3 :> Key3) @@ (Key4 :> Key4)

func_ordered_keys ==
    <<Description, Category, FunctionName, Key1, Key2, Key3, Key4>>

parse_func_block(block) == parse_block(block, func_key_mapping, func_ordered_keys)

butt_key_mapping ==
    (Description :> Description) @@ (Category :> Category) @@
    (ItemIndex :> ButtonName) @@ (ItemFuncParam :> ItemFuncParam) @@
    (Key1 :> Key1) @@ (Key2 :> Key2) @@ (Key3 :> Key3) @@ (Key4 :> Key4)

butt_ordered_keys ==
    <<Description, Category, ButtonName, ItemFuncParam, Key1, Key2, Key3, Key4>>

parse_butt_block(block) == parse_block(block, butt_key_mapping, butt_ordered_keys)

local_butt_key_mapping ==
    (Description :> Description) @@ (Category :> Category) @@
    (ItemIndex :> ButtonName) @@
    (ValueType :> ValueType) @@ (ValueIncrement :> ValueIncrement) @@
    (ItemFuncParam :> ItemFuncParam) @@
    (Key1 :> Key1) @@ (Key2 :> Key2) @@ (Key3 :> Key3) @@ (Key4 :> Key4)

local_butt_ordered_keys ==
    <<Description, Category, ButtonName, ValueType, ValueIncrement, ItemFuncParam,
      Key1, Key2, Key3, Key4>>

parse_local_butt_block(block) ==
    parse_block(block, local_butt_key_mapping, local_butt_ordered_keys)

\* The three block parsers, by name.
Parsers == {"parse_func_block", "parse_butt_block", "parse_local_butt_block"}

\* block_parser(block) for a parser passed by name.
block_parser(parser, block) ==
    CASE parser = "parse_func_block" -> parse_func_block(block)
      [] parser = "parse_butt_block" -> parse_butt_block(block)
      [] parser = "parse_local_butt_block" -> parse_local_butt_block(block)

(***************************************************************************)
(* process_file: the block extractor.                                      *)
(***************************************************************************)

\* A faulty match, one that takes the end of the text for an end marker:
\* what C8 tells from the match of the source.
block_match_to_end(s, i) ==
    IF ~StartsAt(s, i, HotKeyOne) THEN <<>>
    ELSE LET j == SkipClass(s, i + Len(HotKeyOne), Whitespace)
         IN  IF ~StartsAt(s, j, StartHotKeyOne) THEN <<>>
             ELSE LET k == j + Len(StartHotKeyOne)
                      ends == {e \in k..Len(s) : StartsAt(s, e, EndHotKeyOne)}
                  IN  IF ends = {} THEN <<k, Len(s) + 1>> ELSE <<k, Min(ends)>>

\* Where a match of r'HotKeyOne\s*StartHotKeyOne(.*?)EndHotKeyOne' starting
\* at i has its group: <<first, end>> (the group is s[first..end-1]), or <<>>.
\* \s* is greedy and StartHotKeyOne starts with no space, so only the whole
\* run of spaces can match; (.*?) is lazy and DOTALL, so the group ends at
\* the first EndHotKeyOne.
block_match(s, i) ==
    IF ~StartsAt(s, i, HotKeyOne) THEN <<>>
    ELSE LET j == SkipClass(s, i + Len(HotKeyOne), Whitespace)
         IN  IF ~StartsAt(s, j, StartHotKeyOne) THEN <<>>
             ELSE LET k == j + Len(StartHotKeyOne)
                      ends == {e \in k..Len(s) : StartsAt(s, e, EndHotKeyOne)}
                  IN  IF ends = {} THEN <<>> ELSE <<k, Min(ends)>>

RECURSIVE findall(_, _)
\* re.findall of the block pattern in s from position p on: the groups of
\* the leftmost non-overlapping matches.
findall(s, p) ==
    LET starts == {i \in p..Len(s) : block_match(s, i) # <<>>}
    IN  IF starts = {} THEN <<>>
        ELSE LET m == block_match(s, Min(starts))
             IN  <<Slice(s, m[1], m[2])>> \o findall(s, m[2] + Len(EndHotKeyOne))

\* process_file after the read: the parsed blocks of the content.
process_file(content, parser) ==
    LET blocks == findall(content, 1)
    IN  [n \in 1..Len(blocks) |-> block_parser(parser, blocks[n])]

(***************************************************************************)
(* save_to_json: the JSON emitter.                                         *)
(***************************************************************************)

\* os.path.splitext(name)[0] of a name without directory part: the name up
\* to its last dot, when that dot follows a character that is not a dot.
splitext_root(name) ==
    LET dots == {i \in 1..Len(name) : name[i] = "."}
        lead == SkipClass(name, 1, {"."})
    IN  IF dots = {} \/ Max(dots) < lead THEN name
        ELSE Slice(name, 1, Max(dots))

\* os.path.splitext(os.path.basename(output_file))[0].split('.')[2]
\* (the output file names of the program hold no directory part and at
\* least three fields).
keyword(output_file) == Split(splitext_root(output_file), ".")[3]

\* '{\n    "Version": "2025",\n    "'
json_head ==
    <<"{", "\n", " ", " ", " ", " ", "\"", "V", "e", "r", "s", "i", "o", "n", "\"",
      ":", " ", "\"", "2", "0", "2", "5", "\"", ",", "\n", " ", " ", " ", " ", "\"">>

\* 'Shortcuts": [\n'
json_list_start ==
    <<"S", "h", "o", "r", "t", "c", "u", "t", "s", "\"", ":", " ", "[", "\n">>

\* '        {\n'
json_block_start == <<" ", " ", " ", " ", " ", " ", " ", " ", "{", "\n">>

\* '\n        }'
json_block_end == <<"\n", " ", " ", " ", " ", " ", " ", " ", " ", "}">>

\* '\n    ]\n}'
json_tail == <<"\n", " ", " ", " ", " ", "]", "\n", "}">>

\* The twelve spaces and the quote that start a key-value pair.
json_pair_start ==
    <<" ", " ", " ", " ", " ", " ", " ", " ", " ", " ", " ", " ", "\"">>

\* A faulty rewrite, one of every value that starts with the bare control
\* or alt key: what C3 tells from the rewrite of the source.
emit_value_startswith(value) ==
    LET v == IF StartsAt(value, 1, KEY_CTL) THEN KEY_CTL_L
             ELSE IF StartsAt(value, 1, KEY_ALT) THEN KEY_ALT_L
             ELSE value
    IN  Replace(v, "\\", <<"\\", "\\">>)

\* The value as emitted: the rewrite of the bare control and alt keys, then
\* the backslashes doubled.
emit_value(value) ==
    LET v == IF value = KEY_CTL THEN KEY_CTL_L
             ELSE IF value = KEY_ALT THEN KEY_ALT_L
             ELSE value
    IN  Replace(v, "\\", <<"\\", "\\">>)

RECURSIVE key_value_pairs_with_none(_)
\* A faulty list, one that keeps the fields without a key assigned: what C2
\* tells from the list of the source.
key_value_pairs_with_none(items) ==
    IF items = <<>> THEN <<>>
    ELSE <<json_pair_start \o Head(items)[1] \o <<"\"", ":", " ", "\"">>
             \o emit_value(Head(items)[2]) \o <<"\"">> >>
         \o key_value_pairs_with_none(Tail(items))

RECURSIVE key_value_pairs(_)
\* The list key_value_pairs built from the items of one block.
key_value_pairs(items) ==
    IF items = <<>> THEN <<>>
    ELSE LET key == Head(items)[1]
             value == Head(items)[2]
         IN  (IF value = KEY_NONE THEN <<>>
              ELSE <<json_pair_start \o key \o <<"\"", ":", " ", "\"">>
                       \o emit_value(value) \o <<"\"">> >>)
             \o key_value_pairs(Tail(items))

\* What the loop body writes for the block at index idx (from 0).
json_block(idx, block) ==
    (IF idx > 0 THEN <<",", "\n">> ELSE <<>>)
    \o json_block_start
    \o Join(<<",", "\n">>, key_value_pairs(block))
    \o json_block_end

\* The text save_to_json writes to output_file when no write fails.
save_to_json(parsed_blocks, output_file) ==
    json_head \o keyword(output_file) \o json_list_start
    \o Cat([n \in 1..Len(parsed_blocks) |-> json_block(n - 1, parsed_blocks[n])])
    \o json_tail

(***************************************************************************)
(* JSON text (RFC 8259), to read the emitted documents back.  A value is   *)
(* read as <<"string", characters>>, <<"number", digits>>,                 *)
(* <<"object", sequence of <<name, value>> >> or <<"array", values>>; a    *)
(* reading is [end |-> the position after the value, val |-> the value],   *)
(* with end = 0 when the text is not JSON.                                 *)
(***************************************************************************)

JsonSpace == {" ", "\t", "\n", "\r"}

\* Characters that may not stand unescaped in a JSON string (those below
\* U+0020 that TLA+ strings can write).
JsonControl == {"\t", "\n", "\r", "\f"}

\* What each two-character escape stands for ("\\b" for the backspace,
\* which TLA+ strings cannot write).
JsonEscape ==
    ("\"" :> "\"") @@ ("\\" :> "\\") @@ ("/" :> "/") @@ ("b" :> "\\b") @@
    ("f" :> "\f") @@ ("n" :> "\n") @@ ("r" :> "\r") @@ ("t" :> "\t")

JsonHex == Digit \cup {"a", "b", "c", "d", "e", "f", "A", "B", "C", "D", "E", "F"}

JsonFail == [end |-> 0, val |-> <<>>]

\* The character at i, or "" past the end.
At(s, i) == IF i >= 1 /\ i <= Len(s) THEN s[i] ELSE ""

JsonSkip(s, i) == IF i = 0 THEN 0 ELSE SkipClass(s, i, JsonSpace)

RECURSIVE JsonChars(_, _, _)
\* s[i] is inside a string whose characters so far are acc.
JsonChars(s, i, acc) ==
    IF i > Len(s) THEN JsonFail
    ELSE IF s[i] = "\"" THEN [end |-> i + 1, val |-> <<"string", acc>>]
    ELSE IF s[i] \in JsonControl THEN JsonFail
    ELSE IF s[i] = "\\"
         THEN IF At(s, i + 1) \in DOMAIN JsonEscape
              THEN JsonChars(s, i + 2, Append(acc, JsonEscape[s[i + 1]]))
              ELSE IF /\ i + 5 <= Len(s)
                      /\ s[i + 1] = "u"
                      /\ \A k \in 2..5 : s[i + k] \in JsonHex
                   THEN JsonChars(s, i + 6, acc \o <<"\\u">> \o SubSeq(s, i + 2, i + 5))
                   ELSE JsonFail
    ELSE JsonChars(s, i + 1, Append(acc, s[i]))

\* The string that starts at i.
JsonString(s, i) == IF At(s, i) = "\"" THEN JsonChars(s, i + 1, <<>>) ELSE JsonFail

RECURSIVE JsonValue(_, _), JsonMembers(_, _, _), JsonElements(_, _, _)
\* The value that starts at i.
JsonValue(s, i) ==
    IF At(s, i) = "\"" THEN JsonString(s, i)
    ELSE IF At(s, i) \in Digit
         THEN LET e == SkipClass(s, i, Digit)
              IN  [end |-> e, val |-> <<"number", Slice(s, i, e)>>]
    ELSE IF At(s, i) = "{"
         THEN LET j == JsonSkip(s, i + 1)
              IN  IF At(s, j) = "}" THEN [end |-> j + 1, val |-> <<"object", <<>>>>]
                  ELSE JsonMembers(s, j, <<>>)
    ELSE IF At(s, i) = "["
         THEN LET j == JsonSkip(s, i + 1)
              IN  IF At(s, j) = "]" THEN [end |-> j + 1, val |-> <<"array", <<>>>>]
                  ELSE JsonElements(s, j, <<>>)
    ELSE JsonFail

\* i starts a member of an object whose members so far are acc.
JsonMembers(s, i, acc) ==
    LET name == JsonString(s, i)
        colon == JsonSkip(s, name.end)
        value == IF At(s, colon) = ":" THEN JsonValue(s, JsonSkip(s, colon + 1))
                 ELSE JsonFail
        after == JsonSkip(s, value.end)
        all == Append(acc, <<name.val[2], value.val>>)
    IN  IF At(s, after) = "}" THEN [end |-> after + 1, val |-> <<"object", all>>]
        ELSE IF At(s, after) = "," THEN JsonMembers(s, JsonSkip(s, after + 1), all)
        ELSE JsonFail

\* i starts an element of an array whose elements so far are acc.
JsonElements(s, i, acc) ==
    LET value == JsonValue(s, i)
        after == JsonSkip(s, value.end)
        all == Append(acc, value.val)
    IN  IF At(s, after) = "]" THEN [end |-> after + 1, val |-> <<"array", all>>]
        ELSE IF At(s, after) = "," THEN JsonElements(s, JsonSkip(s, after + 1), all)
        ELSE JsonFail

\* The reading of the whole text s.
JsonRead(s) == JsonValue(s, JsonSkip(s, 1))

\* s is one JSON value with nothing but space around it.
ValidJson(s) ==
    LET r == JsonRead(s)
    IN  r.end # 0 /\ JsonSkip(s, r.end) = Len(s) + 1

(***************************************************************************)
(* The conversion of one file's content, step by step: process_file's      *)
(* re.findall, its list comprehension over the blocks, and save_to_json.   *)
(***************************************************************************)

VARIABLES
    cv_pc,        \* "idle", "read", "found", "parsed" or "saved"
    cv_parser,    \* the block_parser passed to process_file
    cv_content,   \* content, as file.read() returned it
    cv_blocks,    \* blocks, the list re.findall returned
    cv_parsed,    \* the list process_file returned
    cv_json       \* what save_to_json wrote to json_file

cvars == <<cv_pc, cv_parser, cv_content, cv_blocks, cv_parsed, cv_json>>

VARIABLES
    pc,                \* where the module-level code stands
    dir,               \* the files of the working directory: name -> content
    func_files,        \* the list the first glob returned
    butt_files,        \* the list the second glob returned
    idx,               \* the position of the running for loop in its list
    output_file_path,  \* output_file_path of the running iteration
    parsed_blocks,     \* parsed_blocks_func or parsed_blocks_butt
    written,           \* the files written: name -> text
    stdout,            \* the lines printed: <<number of blocks, output file>>
    io                 \* history: what was opened, in order, and what raised

dvars == <<pc, dir, func_files, butt_files, idx, output_file_path, parsed_blocks,
           written, stdout, io>>

vars == <<cvars, dvars>>

\* The output file the dispatcher pairs with each parser (the category
\* "action" for the first two, "local" for the third).
cv_output_file ==
    LET user_shortcuts == <<"u", "s", "e", "r", ".", "s", "h", "o", "r", "t", "c", "u", "t", "s", ".">>
        json == <<".", "j", "s", "o", "n">>
        buttons == <<".", "b", "u", "t", "t", "o", "n", "s">>
    IN  CASE cv_parser = "parse_func_block" ->
                 user_shortcuts \o <<"a", "c", "t", "i", "o", "n">> \o json
          [] cv_parser = "parse_butt_block" ->
                 user_shortcuts \o <<"a", "c", "t", "i", "o", "n">> \o buttons \o json
          [] cv_parser = "parse_local_butt_block" ->
                 user_shortcuts \o <<"l", "o", "c", "a", "l">> \o buttons \o json

CvIdle ==
    /\ cv_pc = "idle"
    /\ cv_parser = "parse_func_block"
    /\ cv_content = <<>>
    /\ cv_blocks = <<>>
    /\ cv_parsed = <<>>
    /\ cv_json = <<>>

\* The conversion is about to start on content, with parser.
CvStart(content, parser) ==
    /\ cv_pc = "read"
    /\ cv_parser = parser
    /\ cv_content = content
    /\ cv_blocks = <<>>
    /\ cv_parsed = <<>>
    /\ cv_json = <<>>

\* blocks = re.findall(..., content, re.DOTALL)
Findall ==
    /\ cv_pc = "read"
    /\ cv_blocks' = findall(cv_content, 1)
    /\ cv_pc' = "found"
    /\ UNCHANGED <<cv_parser, cv_content, cv_parsed, cv_json>>
    /\ UNCHANGED dvars

\* return [block_parser(block) for block in blocks]
ParseBlocks ==
    /\ cv_pc = "found"
    /\ cv_parsed' = [n \in 1..Len(cv_blocks) |-> block_parser(cv_parser, cv_blocks[n])]
    /\ cv_pc' = "parsed"
    /\ UNCHANGED <<cv_parser, cv_content, cv_blocks, cv_json>>
    /\ UNCHANGED dvars

\* save_to_json(parsed_blocks, output_file_path)
Save ==
    /\ cv_pc = "parsed"
    /\ cv_json' = save_to_json(cv_parsed, cv_output_file)
    /\ cv_pc' = "saved"
    /\ UNCHANGED <<cv_parser, cv_content, cv_blocks, cv_parsed>>
    /\ UNCHANGED dvars

CvNext == Findall \/ ParseBlocks \/ Save

(***************************************************************************)
(* Input files of the conversion.                                          *)
(***************************************************************************)

\* The head and the foot of a block as flame writes them.
BlockHead == HotKeyOne \o <<" ">> \o StartHotKeyOne \o <<"\n">>

BlockFoot == EndHotKeyOne \o <<"\n">>

\* A line of a block: four spaces, the key, a space, the value.
Line(key, value) == <<" ", " ", " ", " ">> \o key \o <<" ">> \o value \o <<"\n">>

\* Sequences over S of length at most n.
SeqUpTo(S, n) == UNION {[1..k -> S] : k \in 0..n}

\* A key no key mapping holds.
Bogus == <<"B", "o", "g", "u", "s">>

\* The key mapping of a parser.
Mapping(parser) ==
    CASE parser = "parse_func_block" -> func_key_mapping
      [] parser = "parse_butt_block" -> butt_key_mapping
      [] parser = "parse_local_butt_block" -> local_butt_key_mapping

\* Every identifier the key mapping of the parser holds, and one that it
\* does not hold.
InputKeys(parser) == DOMAIN Mapping(parser) \cup {Bogus}

KEY_A == <<"K", "E", "Y", "_", "A">>

MaxKeyLines == 2

\* One block of at most MaxKeyLines lines, any key on each, with the value
\* KEY_NONE or KEY_A.
KeyContents(parser) ==
    LET lines == {Line(k, v) : k \in InputKeys(parser), v \in {KEY_NONE, KEY_A}}
    IN  {BlockHead \o Cat(ls) \o BlockFoot : ls \in SeqUpTo(lines, MaxKeyLines)}

(***************************************************************************)
(* The dispatcher: the module-level code, from the two glob calls on.      *)
(***************************************************************************)

UpperSeq ==
    <<"A", "B", "C", "D", "E", "F", "G", "H", "I", "J", "K", "L", "M",
      "N", "O", "P", "Q", "R", "S", "T", "U", "V", "W", "X", "Y", "Z">>

LowerSeq ==
    <<"a", "b", "c", "d", "e", "f", "g", "h", "i", "j", "k", "l", "m",
      "n", "o", "p", "q", "r", "s", "t", "u", "v", "w", "x", "y", "z">>

\* str.lower (ASCII)
lower(s) ==
    [n \in 1..Len(s) |->
        IF s[n] \in Upper
        THEN LowerSeq[CHOOSE k \in 1..Len(UpperSeq) : UpperSeq[k] = s[n]]
        ELSE s[n]]

\* '.func.hotkey.user'
func_suffix ==
    <<".", "f", "u", "n", "c", ".", "h", "o", "t", "k", "e", "y", ".", "u", "s", "e", "r">>

\* '.butt.hotkey.user'
butt_suffix ==
    <<".", "b", "u", "t", "t", ".", "h", "o", "t", "k", "e", "y", ".", "u", "s", "e", "r">>

\* 'current.'
current_prefix == <<"c", "u", "r", "r", "e", "n", "t", ".">>

\* input_directory = './'
input_directory == <<".", "/">>

\* glob.glob(os.path.join(input_directory, 'current.*' + suffix)) as a set:
\* the paths of the names that start with 'current.' and end with the suffix,
\* the star matching any text, the empty one too.
glob(names, suffix) ==
    {input_directory \o n : n \in
        {m \in names : /\ StartsAt(m, 1, current_prefix)
                       /\ Len(m) >= Len(current_prefix) + Len(suffix)
                       /\ StartsAt(m, Len(m) - Len(suffix) + 1, suffix)}}

\* The orders glob.glob may return the set S in.
Orders(S) ==
    {f \in [1..Cardinality(S) -> S] : \A a, b \in 1..Cardinality(S) : f[a] = f[b] => a = b}

\* re.match(r'.*\.([^.]+)' + suffix, path): <<group 1>>, or <<>> for no match.
\* The group is the text between the last dot before an occurrence of the
\* suffix and that occurrence, and has to be non-empty; the greedy .* takes
\* the last occurrence that gives a match.
category_match(path, suffix) ==
    LET first(h) == Max({d \in 1..(h - 1) : path[d] = "."} \cup {0}) + 1
        hits == {h \in 1..Len(path) : /\ StartsAt(path, h, suffix)
                                       /\ first(h) > 1
                                       /\ first(h) < h}
    IN  IF hits = {} THEN <<>>
        ELSE <<Slice(path, first(Max(hits)), Max(hits))>>

\* None of Python: no text is this value.
None == <<"None">>

user_shortcuts ==
    <<"u", "s", "e", "r", ".", "s", "h", "o", "r", "t", "c", "u", "t", "s", ".">>

dot_json == <<".", "j", "s", "o", "n">>

dot_buttons_json == <<".", "b", "u", "t", "t", "o", "n", "s">> \o dot_json

paintnode == <<"p", "a", "i", "n", "t", "n", "o", "d", "e">>

paint == <<"p", "a", "i", "n", "t">>

paint_batch == paint \o <<"_", "b", "a", "t", "c", "h">>

paint_tools == paint \o <<"_", "t", "o", "o", "l", "s">>

\* func_output_file_path without the lowering of the category token.
func_output_file_path_as_is(input_func_file) ==
    LET match_func == category_match(input_func_file, func_suffix)
    IN  IF match_func = <<>> THEN None
        ELSE LET keyword_func == match_func[1]
             IN  IF keyword_func = paintnode
                 THEN user_shortcuts \o paint_batch \o dot_json
                 ELSE IF keyword_func = paint
                 THEN user_shortcuts \o paint_tools \o dot_json
                 ELSE user_shortcuts \o keyword_func \o dot_json

\* output_file_path as the function-file loop sets it for input_func_file.
func_output_file_path(input_func_file) ==
    LET match_func == category_match(input_func_file, func_suffix)
    IN  IF match_func = <<>> THEN None
        ELSE LET keyword_func == lower(match_func[1])
             IN  IF keyword_func = paintnode
                 THEN user_shortcuts \o paint_batch \o dot_json
                 ELSE IF keyword_func = paint
                 THEN user_shortcuts \o paint_tools \o dot_json
                 ELSE user_shortcuts \o keyword_func \o dot_json

\* output_file_path as the button-file loop sets it for input_butt_file.
butt_output_file_path(input_butt_file) ==
    LET match_butt == category_match(input_butt_file, butt_suffix)
    IN  IF match_butt = <<>> THEN None
        ELSE LET keyword_butt == lower(match_butt[1])
             IN  IF keyword_butt = paintnode
                 THEN user_shortcuts \o paint_batch \o dot_buttons_json
                 ELSE IF keyword_butt = paint
                 THEN user_shortcuts \o paint_tools \o dot_buttons_json
                 ELSE user_shortcuts \o keyword_butt \o dot_buttons_json

\* 'user.shortcuts.local.buttons.json'
local_buttons_json == user_shortcuts \o <<"l", "o", "c", "a", "l">> \o dot_buttons_json

\* butt_parser comparing with the name of the function file's output.
butt_parser_func_name(output_file) ==
    IF output_file = user_shortcuts \o <<"l", "o", "c", "a", "l">> \o dot_json
    THEN "parse_local_butt_block"
    ELSE "parse_butt_block"

\* The parser the button-file loop passes to process_file.
butt_parser(output_file) ==
    IF output_file = local_buttons_json
    THEN "parse_local_butt_block"
    ELSE "parse_butt_block"

\* What a file may hold when a write to it raised: the text of the writes
\* that came before the failing one (the first write, or a later one that
\* left the head of the document).
written_before_failure(output_file) ==
    {<<>>, json_head \o keyword(output_file) \o json_list_start}

DvIdle ==
    /\ pc = "idle"
    /\ dir = <<>>
    /\ func_files = <<>>
    /\ butt_files = <<>>
    /\ idx = 0
    /\ output_file_path = None
    /\ parsed_blocks = <<>>
    /\ written = <<>>
    /\ stdout = <<>>
    /\ io = <<>>

\* The program starts in a directory holding the files d.
DvStart(d) ==
    /\ pc = "glob"
    /\ dir = d
    /\ func_files = <<>>
    /\ butt_files = <<>>
    /\ idx = 0
    /\ output_file_path = None
    /\ parsed_blocks = <<>>
    /\ written = <<>>
    /\ stdout = <<>>
    /\ io = <<>>

\* The name of the file at a path of the input directory.
basename(path) == Slice(path, Len(input_directory) + 1, Len(path) + 1)

\* written with the text put at name.
Put(name, text) ==
    [n \in DOMAIN written \cup {name} |-> IF n = name THEN text ELSE written[n]]

\* func_files = glob.glob(...); butt_files = glob.glob(...)
Glob ==
    /\ pc = "glob"
    /\ func_files' \in Orders(glob(DOMAIN dir, func_suffix))
    /\ butt_files' \in Orders(glob(DOMAIN dir, butt_suffix))
    /\ idx' = 1
    /\ pc' = "func_for"
    /\ UNCHANGED <<dir, output_file_path, parsed_blocks, written, stdout, io>>
    /\ UNCHANGED cvars

\* for input_func_file in func_files: the next file, and its output_file_path.
FuncNext ==
    /\ pc = "func_for"
    /\ idx <= Len(func_files)
    /\ output_file_path' = func_output_file_path(func_files[idx])
    /\ pc' = "func_if"
    /\ UNCHANGED <<dir, func_files, butt_files, idx, parsed_blocks, written, stdout, io>>
    /\ UNCHANGED cvars

\* The function-file loop is over: the button-file loop starts.
FuncEnd ==
    /\ pc = "func_for"
    /\ idx > Len(func_files)
    /\ idx' = 1
    /\ pc' = "butt_for"
    /\ UNCHANGED <<dir, func_files, butt_files, output_file_path, parsed_blocks,
                   written, stdout, io>>
    /\ UNCHANGED cvars

\* if output_file_path: is false.
FuncSkip ==
    /\ pc = "func_if"
    /\ output_file_path = None
    /\ idx' = idx + 1
    /\ pc' = "func_for"
    /\ UNCHANGED <<dir, func_files, butt_files, output_file_path, parsed_blocks,
                   written, stdout, io>>
    /\ UNCHANGED cvars

\* FuncProcess with the error of the read caught: the loop goes on.
FuncProcess_caught ==
    /\ pc = "func_if"
    /\ output_file_path # None
    /\ \/ /\ parsed_blocks' = process_file(dir[basename(func_files[idx])], "parse_func_block")
          /\ io' = Append(io, <<"read", func_files[idx], "parse_func_block">>)
          /\ pc' = "func_save"
          /\ UNCHANGED idx
       \/ /\ io' = Append(io, <<"read raised", func_files[idx]>>)
          /\ pc' = "func_for"
          /\ idx' = idx + 1
          /\ UNCHANGED parsed_blocks
    /\ UNCHANGED <<dir, func_files, butt_files, output_file_path, written, stdout>>
    /\ UNCHANGED cvars

\* parsed_blocks_func = process_file(input_func_file, parse_func_block)
FuncProcess ==
    /\ pc = "func_if"
    /\ output_file_path # None
    /\ \/ /\ parsed_blocks' = process_file(dir[basename(func_files[idx])], "parse_func_block")
          /\ io' = Append(io, <<"read", func_files[idx], "parse_func_block">>)
          /\ pc' = "func_save"
       \/ \* open or read raises
          /\ io' = Append(io, <<"read raised", func_files[idx]>>)
          /\ pc' = "raised"
          /\ UNCHANGED parsed_blocks
    /\ UNCHANGED <<dir, func_files, butt_files, idx, output_file_path, written, stdout>>
    /\ UNCHANGED cvars

\* save_to_json(parsed_blocks_func, output_file_path)
FuncSave ==
    /\ pc = "func_save"
    /\ \/ /\ written' = Put(output_file_path, save_to_json(parsed_blocks, output_file_path))
          /\ io' = Append(io, <<"write", output_file_path>>)
          /\ pc' = "func_print"
       \/ \* open raises
          /\ io' = Append(io, <<"write raised", output_file_path>>)
          /\ pc' = "raised"
          /\ UNCHANGED written
       \/ \* a write raises, after open has truncated the file
          /\ \E text \in written_before_failure(output_file_path) :
                written' = Put(output_file_path, text)
          /\ io' = Append(io, <<"write raised", output_file_path>>)
          /\ pc' = "raised"
    /\ UNCHANGED <<dir, func_files, butt_files, idx, output_file_path, parsed_blocks, stdout>>
    /\ UNCHANGED cvars

\* print(f"Converted {len(parsed_blocks_func)} blocks ...")
FuncPrint ==
    /\ pc = "func_print"
    /\ stdout' = Append(stdout, <<Len(parsed_blocks), output_file_path>>)
    /\ idx' = idx + 1
    /\ pc' = "func_for"
    /\ UNCHANGED <<dir, func_files, butt_files, output_file_path, parsed_blocks, written, io>>
    /\ UNCHANGED cvars

\* for input_butt_file in butt_files: the next file, and its output_file_path.
ButtNext ==
    /\ pc = "butt_for"
    /\ idx <= Len(butt_files)
    /\ output_file_path' = butt_output_file_path(butt_files[idx])
    /\ pc' = "butt_process"
    /\ UNCHANGED <<dir, func_files, butt_files, idx, parsed_blocks, written, stdout, io>>
    /\ UNCHANGED cvars

\* The button-file loop is over, and the program with it.
ButtEnd ==
    /\ pc = "butt_for"
    /\ idx > Len(butt_files)
    /\ pc' = "done"
    /\ UNCHANGED <<dir, func_files, butt_files, idx, output_file_path, parsed_blocks,
                   written, stdout, io>>
    /\ UNCHANGED cvars

\* parsed_blocks_butt = process_file(input_butt_file, ...), with the parser
\* the comparison of output_file_path chooses.
ButtProcess ==
    /\ pc = "butt_process"
    /\ \/ /\ parsed_blocks' = process_file(dir[basename(butt_files[idx])],
                                          butt_parser(output_file_path))
          /\ io' = Append(io, <<"read", butt_files[idx], butt_parser(output_file_path)>>)
          /\ pc' = "butt_save"
       \/ \* open or read raises
          /\ io' = Append(io, <<"read raised", butt_files[idx]>>)
          /\ pc' = "raised"
          /\ UNCHANGED parsed_blocks
    /\ UNCHANGED <<dir, func_files, butt_files, idx, output_file_path, written, stdout>>
    /\ UNCHANGED cvars

\* save_to_json(parsed_blocks_butt, output_file_path)
ButtSave ==
    /\ pc = "butt_save"
    /\ \/ /\ output_file_path # None
          /\ written' = Put(output_file_path, save_to_json(parsed_blocks, output_file_path))
          /\ io' = Append(io, <<"write", output_file_path>>)
          /\ pc' = "butt_print"
       \/ \* open raises: an OSError, or the TypeError of open(None, 'w')
          /\ io' = Append(io, <<"write raised", output_file_path>>)
          /\ pc' = "raised"
          /\ UNCHANGED written
       \/ \* a write raises, after open has truncated the file
          /\ output_file_path # None
          /\ \E text \in written_before_failure(output_file_path) :
                written' = Put(output_file_path, text)
          /\ io' = Append(io, <<"write raised", output_file_path>>)
          /\ pc' = "raised"
    /\ UNCHANGED <<dir, func_files, butt_files, idx, output_file_path, parsed_blocks, stdout>>
    /\ UNCHANGED cvars

\* print(f"Converted {len(parsed_blocks_butt)} blocks ...")
ButtPrint ==
    /\ pc = "butt_print"
    /\ stdout' = Append(stdout, <<Len(parsed_blocks), output_file_path>>)
    /\ idx' = idx + 1
    /\ pc' = "butt_for"
    /\ UNCHANGED <<dir, func_files, butt_files, output_file_path, parsed_blocks, written, io>>
    /\ UNCHANGED cvars

DvNext ==
    \/ Glob
    \/ FuncNext \/ FuncEnd \/ FuncSkip \/ FuncProcess \/ FuncSave \/ FuncPrint
    \/ ButtNext \/ ButtEnd \/ ButtProcess \/ ButtSave \/ ButtPrint

(***************************************************************************)
(* Specifications.  The conversion of one content is checked on three      *)
(* families of input files; the dispatcher on directories of sample files. *)
(***************************************************************************)

\* Files of one block that differ in the keys of their lines.
InitKeys ==
    /\ \E parser \in Parsers : \E content \in KeyContents(parser) :
          CvStart(content, parser)
    /\ DvIdle

SpecKeys == InitKeys /\ [][CvNext]_vars

MaxOrderLines == 2

KEY_B == <<"K", "E", "Y", "_", "B">>

\* The keys and the values of the lines of the files that differ in the
\* order of their lines.
OrderKeys == {Description, FuncIndex, ItemIndex, Key1}

OrderValues == {KEY_A, KEY_B}

\* One block of at most MaxOrderLines lines.
OrderContents ==
    LET lines == {Line(k, v) : k \in OrderKeys, v \in OrderValues}
    IN  {BlockHead \o Cat(ls) \o BlockFoot : ls \in SeqUpTo(lines, MaxOrderLines)}

\* Files of one block that differ in the order of their lines.
InitOrder ==
    /\ \E content \in OrderContents, parser \in Parsers : CvStart(content, parser)
    /\ DvIdle

SpecOrder == InitOrder /\ [][CvNext]_vars

MaxValueLines == 2

\* 'KEY_CTL ' and 'key_ctl': near the bare control key, and not it.
KEY_CTL_space == KEY_CTL \o <<" ">>

key_ctl == <<"k", "e", "y", "_", "c", "t", "l">>

\* 'KEY_ALT\' and 'a\b': values that hold a backslash.
KEY_ALT_backslash == KEY_ALT \o <<"\\">>

a_backslash_b == <<"a", "\\", "b">>

\* The values of the lines of the files that differ in their values.
Values ==
    {KEY_NONE, KEY_CTL, KEY_ALT, KEY_CTL_L, KEY_CTL_space, key_ctl,
     KEY_ALT_backslash, a_backslash_b}

\* One block of at most MaxValueLines lines, with any of Values on each.
ValueContents ==
    LET lines == {Line(k, v) : k \in {Description, Key1}, v \in Values}
    IN  {BlockHead \o Cat(ls) \o BlockFoot : ls \in SeqUpTo(lines, MaxValueLines)}

\* Files of one block that differ in the values of their lines.
InitValues ==
    /\ \E content \in ValueContents, parser \in Parsers : CvStart(content, parser)
    /\ DvIdle

SpecValues == InitValues /\ [][CvNext]_vars

MaxJsonBlocks == 2

MaxJsonLines == 1

\* 'say "hi"'
say_hi == <<"s", "a", "y", " ", "\"", "h", "i", "\"">>

\* At most MaxJsonBlocks blocks of at most MaxJsonLines lines, the keys two
\* that the key mapping of the parser holds, the values with the characters
\* JSON escapes among them.
JsonContents(parser) ==
    LET lines == {Line(k, v) : k \in DOMAIN Mapping(parser) \cap {Description, Key1},
                               v \in {KEY_NONE, KEY_A, a_backslash_b, say_hi}}
        blocks == {BlockHead \o Cat(ls) \o BlockFoot : ls \in SeqUpTo(lines, MaxJsonLines)}
    IN  {Cat(bs) : bs \in SeqUpTo(blocks, MaxJsonBlocks)}

\* Files of several blocks whose values hold quotes and backslashes.
InitJson ==
    /\ \E parser \in Parsers : \E content \in JsonContents(parser) :
          CvStart(content, parser)
    /\ DvIdle

SpecJson == InitJson /\ [][CvNext]_vars

MaxPieces == 5

\* What the files with markers out of place are made of: whole markers,
\* halves of the start marker, and two field lines.
Pieces ==
    {BlockHead, HotKeyOne \o <<"\n">>, StartHotKeyOne \o <<"\n">>, BlockFoot,
     Line(Key1, KEY_A), Line(Key2, KEY_B)}

MarkerContents == {Cat(ps) : ps \in SeqUpTo(Pieces, MaxPieces)}

\* Files whose markers may be unterminated, doubled or out of order.
InitExtract ==
    /\ \E content \in MarkerContents : CvStart(content, "parse_func_block")
    /\ DvIdle

SpecExtract == InitExtract /\ [][CvNext]_vars

MaxFiles == 3

\* 'current.' + token + suffix
InputName(token, suffix) == current_prefix \o token \o suffix

Action == <<"A", "c", "t", "i", "o", "n">>

PaintNode == <<"P", "a", "i", "n", "t", "N", "o", "d", "e">>

Paint == <<"P", "a", "i", "n", "t">>

Local == <<"L", "o", "c", "a", "l">>

notes_txt == <<"n", "o", "t", "e", "s", ".", "t", "x", "t">>

\* The names the files of the working directory are drawn from: hotkey
\* files of both kinds, two of them with an empty category, and a file that
\* is no hotkey file.
SampleNames ==
    {InputName(Action, func_suffix), InputName(PaintNode, func_suffix),
     InputName(paint_batch, func_suffix), InputName(Local, func_suffix),
     InputName(<<>>, func_suffix),
     InputName(Action, butt_suffix), InputName(Paint, butt_suffix),
     InputName(Local, butt_suffix), InputName(<<>>, butt_suffix),
     notes_txt}

Zoom == <<"Z", "o", "o", "m">>

Absolute == <<"A", "b", "s", "o", "l", "u", "t", "e">>

\* A block with the lines of every variant.
SampleBlock ==
    BlockHead
    \o Line(Description, Zoom \o <<" ", "I", "n">>)
    \o Line(FuncIndex, Zoom)
    \o Line(ItemIndex, Zoom)
    \o Line(ValueType, Absolute)
    \o Line(Key1, KEY_CTL)
    \o Line(Key2, KEY_NONE)
    \o BlockFoot

\* What a sample file holds: nothing, or the sample block.
SampleContents == {<<>>, SampleBlock}

\* A working directory of at most MaxFiles files.
Init ==
    /\ \E names \in {ns \in SUBSET SampleNames : Cardinality(ns) <= MaxFiles} :
          \E d \in [names -> SampleContents] : DvStart(d)
    /\ CvIdle

Spec == Init /\ [][DvNext]_vars

(***************************************************************************)
(* Claims about the dispatcher, under Spec.                                *)
(***************************************************************************)

\* './current.' + token + suffix
InputPath(token, suffix) == input_directory \o InputName(token, suffix)

\* 'user.shortcuts.' + category + extension
OutputName(category, extension) == user_shortcuts \o category \o extension

\* The output file each sample file with a category is to be converted to.
ExpectedOutput ==
    (InputPath(Action, func_suffix) :> OutputName(<<"a", "c", "t", "i", "o", "n">>, dot_json)) @@
    (InputPath(PaintNode, func_suffix) :> OutputName(paint_batch, dot_json)) @@
    (InputPath(paint_batch, func_suffix) :> OutputName(paint_batch, dot_json)) @@
    (InputPath(Local, func_suffix) :> OutputName(<<"l", "o", "c", "a", "l">>, dot_json)) @@
    (InputPath(Action, butt_suffix) :>
        OutputName(<<"a", "c", "t", "i", "o", "n">>, dot_buttons_json)) @@
    (InputPath(Paint, butt_suffix) :> OutputName(paint_tools, dot_buttons_json)) @@
    (InputPath(Local, butt_suffix) :>
        OutputName(<<"l", "o", "c", "a", "l">>, dot_buttons_json))

\* The sample files the category pattern does not match.
Unmatched == {InputPath(<<>>, func_suffix), InputPath(<<>>, butt_suffix)}

\* The file of the running iteration.
Current ==
    IF pc \in {"func_if", "func_save", "func_print"} THEN func_files[idx]
    ELSE butt_files[idx]

\* C5: every matched file is converted to the output file the rename table
\* gives for its category token: output_file_path of its iteration, and the
\* file written after it was read, are the expected output file.
C5_OutputNames ==
    /\ pc \in {"func_if", "func_save", "func_print", "butt_process", "butt_save", "butt_print"}
       /\ Current \in DOMAIN ExpectedOutput
       => output_file_path = ExpectedOutput[Current]
    /\ \A n \in DOMAIN io :
          io[n][1] = "write"
          => /\ n > 1
             /\ io[n - 1][1] = "read"
             /\ io[n - 1][2] \in DOMAIN ExpectedOutput
             /\ io[n][2] = ExpectedOutput[io[n - 1][2]]
             /\ io[n][2] \in DOMAIN written

\* C5 happens: current.PaintNode.func.hotkey.user was read, and
\* user.shortcuts.paint_batch.json written for it.
C5_Witness ==
    \E n \in DOMAIN io :
        /\ n > 1
        /\ io[n] = <<"write", OutputName(paint_batch, dot_json)>>
        /\ io[n - 1][2] = InputPath(PaintNode, func_suffix)

\* The parser each sample file is to be read with: the local-button one for
\* the button file of category local, the button one for the other button
\* files, the function one for the function files.
ExpectedParser(path) ==
    IF path = InputPath(Local, butt_suffix) THEN "parse_local_butt_block"
    ELSE IF path \in {InputPath(Action, butt_suffix), InputPath(Paint, butt_suffix),
                      InputPath(<<>>, butt_suffix)}
    THEN "parse_butt_block"
    ELSE "parse_func_block"

\* The text has an object with a member of this name in its list.
Emits(text, name) ==
    /\ ValidJson(text)
    /\ \E n \in DOMAIN JsonRead(text).val[2][2][2][2] :
          \E m \in DOMAIN JsonRead(text).val[2][2][2][2][n][2] :
              JsonRead(text).val[2][2][2][2][n][2][m][1] = name

\* C6: a file is read with the local-button parser if and only if it is the
\* button file of category local, every other button file with the button
\* parser and every function file with the function parser; and the file
\* written for the sample block keeps ValueType exactly in the first case.
C6_LocalVariant ==
    /\ \A n \in DOMAIN io : io[n][1] = "read" => io[n][3] = ExpectedParser(io[n][2])
    /\ pc \in {"func_print", "butt_print"} /\ dir[basename(Current)] = SampleBlock
       => (Emits(written[output_file_path], ValueType)
             <=> Current = InputPath(Local, butt_suffix))

\* C6 happens: current.Local.butt.hotkey.user has been converted, and its
\* output holds ValueType.
C6_Witness ==
    /\ pc = "butt_print"
    /\ Current = InputPath(Local, butt_suffix)
    /\ Emits(written[output_file_path], ValueType)

\* C7: a discovered file the category pattern does not match is skipped in
\* both loops: it is not read, nothing is written or raised for it.
C7_UnmatchedSkipped ==
    \A n \in DOMAIN io : io[n][2] \notin Unmatched \cup {None}

\* The reads the program tried, in order.
Attempted == SelectSeq(io, LAMBDA e : e[1] \in {"read", "read raised"})

\* The files in the order of the two loops.
AllFiles == func_files \o butt_files

Position(seq, x) == CHOOSE k \in 1..Len(seq) : seq[k] = x

Range(seq) == {seq[k] : k \in 1..Len(seq)}

\* The state part of C10: the files are read in the order of the function
\* files and then the button files, one at a time, each read and parsed
\* before its output is opened; what raises is the last thing done; and a
\* run that ends has processed every file with a category.
C10_Batch ==
    /\ \A n \in 1..Len(Attempted) : Attempted[n][2] \in Range(AllFiles)
    /\ \A a, b \in 1..Len(Attempted) :
          a < b => Position(AllFiles, Attempted[a][2]) < Position(AllFiles, Attempted[b][2])
    /\ \A n \in DOMAIN io :
          /\ io[n][1] \in {"write", "write raised"} => n > 1 /\ io[n - 1][1] = "read"
          /\ io[n][1] = "read" /\ n < Len(io) => io[n + 1][1] \in {"write", "write raised"}
          /\ io[n][1] \in {"read raised", "write raised"} => n = Len(io) /\ pc = "raised"
    /\ pc \in {"func_save", "butt_save"}
       => /\ io[Len(io)] = <<"read", Current, ExpectedParser(Current)>>
          /\ parsed_blocks = process_file(dir[basename(Current)], ExpectedParser(Current))
    /\ pc = "done" => {Attempted[n][2] : n \in 1..Len(Attempted)} = Range(AllFiles) \ Unmatched

\* The step part of C10 as amended: nothing is done after an error, a read
\* error leaves every output as it was, and any error leaves the outputs
\* at other paths than the failing file's own as they were.
C10_AbortKeepsOtherOutputs ==
    /\ pc = "raised" => UNCHANGED vars
    /\ pc' = "raised" /\ io'[Len(io')][1] = "read raised" => written' = written
    /\ pc' = "raised"
       => \A o \in DOMAIN written \ {output_file_path} :
             o \in DOMAIN written' /\ written'[o] = written[o]

\* The step part of C10 as claimed: any error leaves every output already
\* written as it was.
C10_AbortKeepsOutputs ==
    /\ pc = "raised" => UNCHANGED vars
    /\ pc' = "raised" /\ io'[Len(io')][1] = "read raised" => written' = written
    /\ pc' = "raised"
       => \A o \in DOMAIN written : o \in DOMAIN written' /\ written'[o] = written[o]

\* C10 as claimed: the batch reads the function files and then the button
\* files, one at a time, each read and parsed before its output is opened;
\* an error of a read or a write aborts the batch, no later file is read or
\* written, a read error leaves the file's output untouched, and the
\* outputs written for earlier files stay as written.
C10_Original == []C10_Batch /\ [][C10_AbortKeepsOutputs]_vars

\* C10 amended: as claimed, but of the outputs written for earlier files
\* only those at another path than the failing file's output stay as written.
C10_Amended == []C10_Batch /\ [][C10_AbortKeepsOtherOutputs]_vars

\* C10 happens: a file was converted, the write of the next file's output
\* raised, and a third file is left unread.
C10_Witness ==
    /\ pc = "raised"
    /\ io[Len(io)][1] = "write raised"
    /\ \E n \in DOMAIN io : io[n][1] = "write"
    /\ Len(Attempted) < Len(AllFiles)

(***************************************************************************)
(* Claims about the conversion of one content.                             *)
(***************************************************************************)

\* The field order of the variant a parser stands for.
FieldOrder(parser) ==
    CASE parser = "parse_func_block" -> func_ordered_keys
      [] parser = "parse_butt_block" -> butt_ordered_keys
      [] parser = "parse_local_butt_block" -> local_butt_ordered_keys

\* The line of key and value stands in the block, its line break at p (the
\* blocks of the input files start with a line break and so does each line).
LineAt(block, p, key, value) == StartsAt(block, p, <<"\n">> \o Line(key, value))

\* Where the block has a line of this key, whatever its value.
LinesOf(block, key, values) ==
    {p \in 1..Len(block) : \E v \in values : LineAt(block, p, key, v)}

\* The objects of the list of an emitted document, and the values an object
\* has under a name.
Objects(text) == JsonRead(text).val[2][2][2][2]

Under(object, name) == {object[2][m][2] : m \in {q \in DOMAIN object[2] : object[2][q][1] = name}}

\* The emitted text is a document with one object for each block.
Emitted == ValidJson(cv_json) /\ Len(Objects(cv_json)) = Len(cv_blocks)

\* C1: whatever the input file, the document save_to_json writes is valid
\* JSON.
C1_ValidJson == cv_pc = "saved" => ValidJson(cv_json)

\* C2 as claimed: a recognized key that a line of a block gives the value
\* KEY_NONE is absent from the object emitted for the block.
C2_Original ==
    cv_pc = "saved"
    => /\ Emitted
       /\ \A n \in DOMAIN cv_blocks : \A k \in DOMAIN Mapping(cv_parser) :
             LinesOf(cv_blocks[n], k, {KEY_NONE}) # {}
             => Under(Objects(cv_json)[n], Mapping(cv_parser)[k]) = {}

\* C2 amended: a recognized key whose last line in a block gives the value
\* KEY_NONE is absent from the object emitted for the block.
C2_Amended ==
    cv_pc = "saved"
    => /\ Emitted
       /\ \A n \in DOMAIN cv_blocks : \A k \in DOMAIN Mapping(cv_parser) :
             /\ LinesOf(cv_blocks[n], k, {KEY_NONE}) # {}
             /\ Max(LinesOf(cv_blocks[n], k, {KEY_NONE, KEY_A}))
                   \in LinesOf(cv_blocks[n], k, {KEY_NONE})
             => Under(Objects(cv_json)[n], Mapping(cv_parser)[k]) = {}

\* C2 happens: a block gives a recognized key first KEY_A and last KEY_NONE,
\* and its object is emitted without the field.
C2_Witness ==
    /\ cv_pc = "saved"
    /\ Emitted
    /\ \E n \in DOMAIN cv_blocks : \E k \in DOMAIN Mapping(cv_parser) :
          /\ LinesOf(cv_blocks[n], k, {KEY_A}) # {}
          /\ LinesOf(cv_blocks[n], k, {KEY_NONE}) # {}
          /\ Max(LinesOf(cv_blocks[n], k, {KEY_NONE})) > Max(LinesOf(cv_blocks[n], k, {KEY_A}))
          /\ Under(Objects(cv_json)[n], Mapping(cv_parser)[k]) = {}

\* What a value is emitted as: the bare control and alt keys as their left
\* forms, every other value as it is.
ExpectedValue(value) ==
    IF value = KEY_CTL THEN <<"K", "E", "Y", "_", "C", "T", "L", "_", "L">>
    ELSE IF value = KEY_ALT THEN <<"K", "E", "Y", "_", "A", "L", "T", "_", "L">>
    ELSE value

\* C3: a field whose value is exactly KEY_CTL or KEY_ALT is emitted with the
\* value KEY_CTL_L or KEY_ALT_L, and a field with any other value that is
\* not KEY_NONE with a JSON string that reads as the value itself.
C3_LeftForms ==
    cv_pc = "saved"
    => /\ Emitted
       /\ \A n \in DOMAIN cv_parsed : \A q \in DOMAIN cv_parsed[n] :
             cv_parsed[n][q][2] # KEY_NONE
             => Under(Objects(cv_json)[n], cv_parsed[n][q][1])
                   = {<<"string", ExpectedValue(cv_parsed[n][q][2])>>}

\* C3 happens: a record holds KEY_CTL in one field and a value that only
\* starts like it, or KEY_ALT with a backslash, in another, and is emitted.
C3_Witness ==
    /\ cv_pc = "saved"
    /\ \E n \in DOMAIN cv_parsed : \E q, r \in DOMAIN cv_parsed[n] :
          /\ cv_parsed[n][q][2] = KEY_CTL
          /\ cv_parsed[n][r][2] \in {KEY_CTL_space, KEY_ALT_backslash}
          /\ Under(Objects(cv_json)[n], cv_parsed[n][q][1]) = {<<"string", KEY_CTL_L>>}

\* The permutations of 1..n, for the numbers of lines a block may have (its
\* field lines, and the empty lines before the first and after the last).
LinePermutations ==
    [n \in 0..(MaxOrderLines + 2) |->
        {f \in [1..n -> 1..n] : \A a, b \in 1..n : f[a] = f[b] => a = b}]

\* No two lines of the block have the same recognized key.
NoDuplicateKeys(block, parser) ==
    \A k \in DOMAIN Mapping(parser) : Cardinality(LinesOf(block, k, OrderValues)) <= 1

\* C4: the lines of a block without duplicate keys give, in any order, the
\* same record with the same sequence of fields, and so the same object.
C4_OrderInvariant ==
    cv_pc = "parsed"
    => \A n \in DOMAIN cv_blocks :
          NoDuplicateKeys(cv_blocks[n], cv_parser)
          => LET lines == Split(cv_blocks[n], "\n")
             IN  \A f \in LinePermutations[Len(lines)] :
                    LET permuted == Join(<<"\n">>, [a \in 1..Len(lines) |-> lines[f[a]]])
                    IN  /\ block_parser(cv_parser, permuted) = cv_parsed[n]
                        /\ json_block(n - 1, block_parser(cv_parser, permuted))
                              = json_block(n - 1, cv_parsed[n])

\* C4 happens: a block has two lines of different recognized keys, the one
\* that comes later in the variant's order first, and both are in its record.
C4_Witness ==
    /\ cv_pc = "parsed"
    /\ cv_parser = "parse_func_block"
    /\ \E n \in DOMAIN cv_blocks :
          /\ LinesOf(cv_blocks[n], Key1, {KEY_A}) # {}
          /\ LinesOf(cv_blocks[n], Description, {KEY_B}) # {}
          /\ Max(LinesOf(cv_blocks[n], Key1, {KEY_A}))
                < Max(LinesOf(cv_blocks[n], Description, {KEY_B}))
          /\ cv_parsed[n] = <<<<Description, KEY_B>>, <<Key1, KEY_A>>>>

\* C9: a field that several lines of a block give holds the value of the
\* last of them, and stands once in the record, at its place in the
\* variant's order (a field no line gives does not stand in it).
C9_LastWins ==
    cv_pc = "parsed"
    => /\ Len(cv_parsed) = Len(cv_blocks)
       /\ \A n \in DOMAIN cv_blocks :
             /\ \A k \in DOMAIN Mapping(cv_parser) :
                   LET all == LinesOf(cv_blocks[n], k, {KEY_NONE, KEY_A})
                       at == {q \in DOMAIN cv_parsed[n] :
                                 cv_parsed[n][q][1] = Mapping(cv_parser)[k]}
                   IN  IF all = {} THEN at = {}
                       ELSE /\ Cardinality(at) = 1
                            /\ \A q \in at :
                                  LineAt(cv_blocks[n], Max(all), k, cv_parsed[n][q][2])
             /\ \A q, r \in DOMAIN cv_parsed[n] :
                   q < r => Position(FieldOrder(cv_parser), cv_parsed[n][q][1])
                              < Position(FieldOrder(cv_parser), cv_parsed[n][r][1])

\* C9 happens: a block gives Key1 the value KEY_NONE and then the value
\* KEY_A, and its record holds Key1 once, with KEY_A.
C9_Witness ==
    /\ cv_pc = "parsed"
    /\ \E n \in DOMAIN cv_blocks :
          /\ LinesOf(cv_blocks[n], Key1, {KEY_NONE}) # {}
          /\ LinesOf(cv_blocks[n], Key1, {KEY_A}) # {}
          /\ Max(LinesOf(cv_blocks[n], Key1, {KEY_NONE})) < Max(LinesOf(cv_blocks[n], Key1, {KEY_A}))
          /\ cv_parsed[n] = <<<<Key1, KEY_A>>>>

\* Where the content has a start marker: <<its first position, the
\* position after it>>, HotKeyOne and StartHotKeyOne with nothing but
\* space between them.
StartMarkers(s) ==
    UNION {{<<i, j + Len(StartHotKeyOne)>> :
               j \in {q \in (i + Len(HotKeyOne))..Len(s) :
                         /\ StartsAt(s, q, StartHotKeyOne)
                         /\ \A w \in (i + Len(HotKeyOne))..(q - 1) : s[w] \in Whitespace}} :
           i \in {q \in 1..Len(s) : StartsAt(s, q, HotKeyOne)}}

\* Where the content has an end marker.
EndMarkers(s) == {e \in 1..Len(s) : StartsAt(s, e, EndHotKeyOne)}

\* The start markers with no end marker after them.
Unterminated(s) == {m \in StartMarkers(s) : \A e \in EndMarkers(s) : e < m[2]}

\* The texts between a start marker and its own end marker, the first one
\* after it: <<start marker, end marker>>.
MarkerPairs(s) ==
    {<<m, e>> \in StartMarkers(s) \X EndMarkers(s) :
        e >= m[2] /\ \A x \in EndMarkers(s) : x < m[2] \/ x >= e}

====
